---- MODULE Spec2Model ----
(***************************************************************************)
(* Model of visualizer/live_plot.py: an MQTT network thread that runs      *)
(* on_connect / on_message, and the main thread that runs the refresh      *)
(* loop, sharing four bounded deques and the last_update timestamp.        *)
(*                                                                         *)
(* The two threads interleave at statement granularity: nothing in the     *)
(* source locks the shared deques, so every statement of on_message and    *)
(* every statement of the refresh loop is its own step.                    *)
(***************************************************************************)
EXTENDS Integers, Sequences, FiniteSets, TLC

(***************************************************************************)
(* Bounds of the model.                                                    *)
(***************************************************************************)
\* Capacity of each deque.  The source sets 300 (live_plot.py:31); the model
\* runs the same deque at a small capacity so that eviction happens.
MAX_POINTS == 2
\* Messages the broker delivers in one run.
MaxMsgs == 3
\* Messages delivered in the runs that follow the wall clock (SpecFresh).
MaxFreshMsgs == 1
\* Connection results the client reports in one run.
MaxConnects == 2
\* time.time() ranges over MinTime..MaxTime, in whole seconds.  The wall
\* clock counts from the epoch, so every reading is far above IDLE_WARN_SEC.
MinTime == 6
MaxTime == 12

(***************************************************************************)
(* Program constants.                                                      *)
(***************************************************************************)
IDLE_WARN_SEC == 5

(***************************************************************************)
(* Text: a payload is a sequence of characters.                            *)
(***************************************************************************)
Digits == <<"0", "1", "2", "3", "4", "5", "6", "7", "8", "9">>
Whitespace == {" ", "\n"}

IsDigit(c) == \E i \in 1..Len(Digits) : Digits[i] = c
DigitValue(c) == (CHOOSE i \in 1..Len(Digits) : Digits[i] = c) - 1

\* str.lower() on the letters that occur in the payloads of the model
Lower(c) ==
    CASE c = "N" -> "n"
      [] c = "A" -> "a"
      [] c = "I" -> "i"
      [] c = "F" -> "f"
      [] OTHER -> c

LowerAll(s) == [i \in 1..Len(s) |-> Lower(s[i])]

RECURSIVE LStrip(_)
LStrip(s) ==
    IF s # <<>> /\ Head(s) \in Whitespace THEN LStrip(Tail(s)) ELSE s

RECURSIVE RStrip(_)
RStrip(s) ==
    IF s # <<>> /\ s[Len(s)] \in Whitespace
    THEN RStrip(SubSeq(s, 1, Len(s) - 1))
    ELSE s

\* str.strip()
Strip(s) == RStrip(LStrip(s))

\* str.split(","): the fields between commas; always at least one field
RECURSIVE SplitFrom(_, _)
SplitFrom(s, cur) ==
    IF s = <<>> THEN <<cur>>
    ELSE IF Head(s) = "," THEN <<cur>> \o SplitFrom(Tail(s), <<>>)
    ELSE SplitFrom(Tail(s), Append(cur, Head(s)))

Split(s) == SplitFrom(s, <<>>)

(***************************************************************************)
(* float(): a Python float is finite, an infinity or NaN.                  *)
(***************************************************************************)
Finite(n) == [kind |-> "finite", val |-> n]
Inf(sign) == [kind |-> "inf", val |-> sign]
NaN == [kind |-> "nan", val |-> 0]
ValueError == [kind |-> "ValueError", val |-> 0]

IsFinite(x) == x.kind = "finite"

RECURSIVE Decimal(_)
Decimal(s) ==
    IF s = <<>> THEN 0
    ELSE 10 * Decimal(SubSeq(s, 1, Len(s) - 1)) + DigitValue(s[Len(s)])

\* float() of an unsigned literal.  The payload alphabet of the model has no
\* '.', 'e' or '_', so a finite literal is a run of digits.
ParseUnsigned(s, sign) ==
    IF s # <<>> /\ \A i \in 1..Len(s) : IsDigit(s[i])
    THEN Finite(sign * Decimal(s))
    ELSE IF LowerAll(s) = <<"n", "a", "n">>
    THEN NaN
    ELSE IF LowerAll(s) \in {<<"i", "n", "f">>,
                             <<"i", "n", "f", "i", "n", "i", "t", "y">>}
    THEN Inf(sign)
    ELSE ValueError

\* float(str): surrounding whitespace is ignored, one sign is allowed
ParseFloat(field) ==
    LET s == Strip(field) IN
    IF s = <<>> THEN ValueError
    ELSE IF Head(s) = "-" THEN ParseUnsigned(Tail(s), -1)
    ELSE IF Head(s) = "+" THEN ParseUnsigned(Tail(s), 1)
    ELSE ParseUnsigned(s, 1)

(***************************************************************************)
(* collections.deque(maxlen=MAX_POINTS)                                    *)
(***************************************************************************)
\* Mutant: a deque without maxlen, which never evicts
DequeAppendUnbounded(d, x) == Append(d, x)

\* Mutant: a full deque that makes room at the wrong end
DequeAppendDropNewest(d, x) ==
    IF Len(d) >= MAX_POINTS
    THEN Append(SubSeq(d, 1, Len(d) - 1), x)
    ELSE Append(d, x)

\* deque.append: when the deque is full, the item at the other end is dropped
DequeAppend(d, x) ==
    IF Len(d) >= MAX_POINTS THEN Append(Tail(d), x) ELSE Append(d, x)

(***************************************************************************)
(* Payloads the publisher may put on the topic (bytes of msg.payload).     *)
(***************************************************************************)
\* a byte sequence that is not UTF-8: msg.payload.decode() raises on it
BadByte == "<ff>"

P_valid1 == <<"1", ",", "2", ",", "3", ",", "4">>
P_valid2 == <<" ", "5", ",", "6", ",", "7", ",", "8", "\n">>
P_three == <<"1", ",", "2", ",", "3">>
P_five == <<"1", ",", "2", ",", "3", ",", "4", ",", "5">>
P_garbage == <<"g", "a", "r", "b", "a", "g", "e">>
P_empty == <<>>
P_x_first == <<"x", ",", "1", ",", "2", ",", "3">>
P_x_last == <<"1", ",", "2", ",", "3", ",", "x">>
P_no_field == <<"1", ",", ",", "3", ",", "4">>
P_bad_utf8 == <<"1", ",", "2", ",", "3", ",", BadByte>>
P_nan == <<"N", "a", "N", ",", "1", ",", "2", ",", "3">>
P_inf == <<"1", ",", "2", ",", "3", ",", "i", "n", "f">>
P_neg_inf == <<"1", ",", "-", "I", "n", "f", "i", "n", "i", "t", "y", ",", "3", ",", "4">>

\* what the publisher means by each payload
WellFormed == {P_valid1, P_valid2}
WrongCount == {P_three, P_five, P_garbage, P_empty}
NonNumeric == {P_x_first, P_x_last, P_no_field, P_bad_utf8}
NonFinite == {P_nan, P_inf, P_neg_inf}
Payloads == WellFormed \cup WrongCount \cup NonNumeric \cup NonFinite

\* the readings a well-formed payload carries
Reading(payload) ==
    IF payload = P_valid1
    THEN <<Finite(1), Finite(2), Finite(3), Finite(4)>>
    ELSE <<Finite(5), Finite(6), Finite(7), Finite(8)>>

\* CONNACK result codes: 0 is success, the others are refusals
ResultCodes == {0, 1, 5}

(***************************************************************************)
(* State                                                                   *)
(***************************************************************************)
VARIABLES
    temps, temps_avg, press, press_avg,  \* the four deques
    last_update,                         \* time of the last accepted message
    clock,                               \* what time.time() returns now
    npc,                                 \* network thread: position in on_message
    vals,                                \* on_message locals t, ta, p, pa
    link,                                \* "down" or "up": the broker session
    subscribed,                          \* the session has the subscription
    subscribes,                          \* calls of client.subscribe so far
    stderr,                              \* rc of each "Connect failed" line
    mpc,                                 \* main thread: position in the script
    xs,                                  \* len of range(...) held by xs
    t_line, ta_line, p_line, pa_line,    \* data held by the four plot lines
    idle,                                \* the refresh loop's idle
    status_txt,                          \* text shown by status_txt
    delivered,                           \* history: messages handed to on_message
    sent,                                \* history: well-formed payloads delivered
    log,                                 \* history: values appended to each deque
    accepted,                            \* history: messages that passed line 53
    stamps                               \* history: writes of last_update

windows == <<temps, temps_avg, press, press_avg>>
store == <<temps, temps_avg, press, press_avg, last_update>>
net == <<npc, vals>>
conn == <<link, subscribed, subscribes, stderr>>
lines == <<t_line, ta_line, p_line, pa_line>>
main == <<mpc, xs, t_line, ta_line, p_line, pa_line, idle, status_txt>>
hist == <<delivered, sent, log, accepted, stamps>>
vars == <<temps, temps_avg, press, press_avg, last_update, clock, npc, vals,
          link, subscribed, subscribes, stderr, mpc, xs, t_line, ta_line,
          p_line, pa_line, idle, status_txt, delivered, sent, log, accepted,
          stamps>>

\* Line2D data as set by set_data(x, y)
LineData(n, ys) == [x |-> n, y |-> ys]

\* status_txt.set_text(...)
IdleText(secs) == [kind |-> "idle", secs |-> secs]
NoText == [kind |-> "blank", secs |-> 0]

Init ==
    /\ temps = <<>> /\ temps_avg = <<>> /\ press = <<>> /\ press_avg = <<>>
    /\ last_update = 0
    /\ clock = MinTime
    /\ npc = "idle" /\ vals = <<>>
    /\ link = "down" /\ subscribed = FALSE /\ subscribes = 0 /\ stderr = <<>>
    /\ mpc = "l69" /\ xs = 0
    /\ t_line = LineData(0, <<>>) /\ ta_line = LineData(0, <<>>)
    /\ p_line = LineData(0, <<>>) /\ pa_line = LineData(0, <<>>)
    /\ idle = 0 /\ status_txt = NoText
    /\ delivered = 0 /\ sent = <<>>
    /\ log = [i \in 1..4 |-> <<>>]
    /\ accepted = 0 /\ stamps = 0

(***************************************************************************)
(* Network thread: on_connect                                              *)
(***************************************************************************)
\* Mutant: a refused connection also throws the buffered samples away
OnConnectClearing(rc) ==
    /\ npc = "idle"
    /\ link = "down"
    /\ subscribes + Len(stderr) < MaxConnects
    /\ IF rc = 0
       THEN /\ subscribes' = subscribes + 1
            /\ subscribed' = TRUE
            /\ link' = "up"
            /\ UNCHANGED <<stderr, store>>
       ELSE /\ stderr' = Append(stderr, rc)
            /\ temps' = <<>> /\ temps_avg' = <<>>
            /\ press' = <<>> /\ press_avg' = <<>>
            /\ UNCHANGED <<last_update, link, subscribed, subscribes>>
    /\ UNCHANGED <<clock, net, main, hist>>

\* Mutant: the subscription is made on the first connection only
OnConnectSubscribeOnce(rc) ==
    /\ npc = "idle"
    /\ link = "down"
    /\ subscribes + Len(stderr) < MaxConnects
    /\ IF rc = 0
       THEN /\ subscribes' = IF subscribes = 0 THEN 1 ELSE subscribes
            /\ subscribed' = (subscribes = 0)
            /\ link' = "up"
            /\ UNCHANGED stderr
       ELSE /\ stderr' = Append(stderr, rc)
            /\ UNCHANGED <<link, subscribed, subscribes>>
    /\ UNCHANGED <<store, clock, net, main, hist>>

\* The client reports a connection result: subscribe on success, print the
\* refusal on failure.  Callbacks run one at a time on the network thread.
OnConnect(rc) ==
    /\ npc = "idle"
    /\ link = "down"
    /\ subscribes + Len(stderr) < MaxConnects
    /\ IF rc = 0
       THEN /\ subscribes' = subscribes + 1
            /\ subscribed' = TRUE
            /\ link' = "up"
            /\ UNCHANGED stderr
       ELSE /\ stderr' = Append(stderr, rc)
            /\ UNCHANGED <<link, subscribed, subscribes>>
    /\ UNCHANGED <<store, clock, net, main, hist>>

\* The session to the broker drops; the client library will connect again.
ConnectionLost ==
    /\ npc = "idle"
    /\ link = "up"
    /\ link' = "down"
    /\ subscribed' = FALSE
    /\ UNCHANGED <<subscribes, stderr, store, clock, net, main, hist>>

(***************************************************************************)
(* Network thread: on_message                                              *)
(***************************************************************************)
\* bytes.decode(): UnicodeDecodeError on bytes that are not UTF-8
Decodable(payload) == \A i \in 1..Len(payload) : payload[i] # BadByte

\* lines 50-53, up to the first append: what the handler does with a payload
ParseMessage(payload) ==
    IF ~Decodable(payload)
    THEN [status |-> "raise", exc |-> "UnicodeDecodeError", vals |-> <<>>]
    ELSE LET parts == Split(Strip(payload)) IN
         IF Len(parts) # 4
         THEN [status |-> "return", exc |-> "", vals |-> <<>>]
         ELSE LET fs == [i \in 1..4 |-> ParseFloat(parts[i])] IN
              IF \E i \in 1..4 : fs[i] = ValueError
              THEN [status |-> "raise", exc |-> "ValueError", vals |-> <<>>]
              ELSE [status |-> "ok", exc |-> "", vals |-> fs]

\* Mutant: "except ValueError", which lets a decoding error through
ExceptValueErrorOnly(exc) == exc = "ValueError"

\* "except Exception": every exception the body can raise is an Exception
ExceptClause(exc) == exc \in {"ValueError", "UnicodeDecodeError"}

\* Mutant: the timestamp is also taken right after parsing, before the appends
OnMessageStampFirst(payload) ==
    /\ npc = "idle"
    /\ link = "up" /\ subscribed
    /\ delivered < MaxMsgs
    /\ delivered' = delivered + 1
    /\ sent' = IF payload \in WellFormed THEN Append(sent, payload) ELSE sent
    /\ LET r == ParseMessage(payload) IN
       IF r.status = "ok"
       THEN /\ npc' = "l54" /\ vals' = r.vals /\ accepted' = accepted + 1
            /\ last_update' = clock /\ stamps' = stamps + 1
       ELSE /\ npc' = "idle" /\ vals' = <<>>
            /\ UNCHANGED <<accepted, last_update, stamps>>
    /\ UNCHANGED <<windows, clock, conn, main, log>>

\* A message arrives and the handler runs up to its first shared write.
OnMessage(payload) ==
    /\ npc = "idle"
    /\ link = "up" /\ subscribed
    /\ delivered < MaxMsgs
    /\ delivered' = delivered + 1
    /\ sent' = IF payload \in WellFormed THEN Append(sent, payload) ELSE sent
    /\ LET r == ParseMessage(payload) IN
       CASE r.status = "ok" ->
              npc' = "l54" /\ vals' = r.vals /\ accepted' = accepted + 1
         [] r.status = "return" ->
              npc' = "idle" /\ vals' = <<>> /\ UNCHANGED accepted
         [] OTHER ->
              /\ npc' = IF ExceptClause(r.exc) THEN "idle" ELSE "crashed"
              /\ vals' = <<>>
              /\ UNCHANGED accepted
    /\ UNCHANGED <<store, clock, conn, main, log, stamps>>

\* Mutant: the appends start at the other end, with press_avg
L54Reordered ==
    /\ npc = "l54"
    /\ press_avg' = DequeAppend(press_avg, vals[4])
    /\ log' = [log EXCEPT ![4] = Append(@, vals[4])]
    /\ npc' = "l55"
    /\ UNCHANGED <<temps, temps_avg, press, last_update, clock, vals,
                   conn, main, delivered, sent, accepted, stamps>>

\* temps.append(t)
L54 ==
    /\ npc = "l54"
    /\ temps' = DequeAppend(temps, vals[1])
    /\ log' = [log EXCEPT ![1] = Append(@, vals[1])]
    /\ npc' = "l55"
    /\ UNCHANGED <<temps_avg, press, press_avg, last_update, clock, vals,
                   conn, main, delivered, sent, accepted, stamps>>

\* Mutant: a copied line that still names temps
L55CopyPaste ==
    /\ npc = "l55"
    /\ temps' = DequeAppend(temps, vals[2])
    /\ log' = [log EXCEPT ![1] = Append(@, vals[2])]
    /\ npc' = "l56"
    /\ UNCHANGED <<temps_avg, press, press_avg, last_update, clock, vals,
                   conn, main, delivered, sent, accepted, stamps>>

\* temps_avg.append(ta)
L55 ==
    /\ npc = "l55"
    /\ temps_avg' = DequeAppend(temps_avg, vals[2])
    /\ log' = [log EXCEPT ![2] = Append(@, vals[2])]
    /\ npc' = "l56"
    /\ UNCHANGED <<temps, press, press_avg, last_update, clock, vals,
                   conn, main, delivered, sent, accepted, stamps>>

\* press.append(p)
L56 ==
    /\ npc = "l56"
    /\ press' = DequeAppend(press, vals[3])
    /\ log' = [log EXCEPT ![3] = Append(@, vals[3])]
    /\ npc' = "l57"
    /\ UNCHANGED <<temps, temps_avg, press_avg, last_update, clock, vals,
                   conn, main, delivered, sent, accepted, stamps>>

\* press_avg.append(pa)
L57 ==
    /\ npc = "l57"
    /\ press_avg' = DequeAppend(press_avg, vals[4])
    /\ log' = [log EXCEPT ![4] = Append(@, vals[4])]
    /\ npc' = "l58"
    /\ UNCHANGED <<temps, temps_avg, press, last_update, clock, vals,
                   conn, main, delivered, sent, accepted, stamps>>

\* last_update = time.time(), and the handler returns
L58 ==
    /\ npc = "l58"
    /\ last_update' = clock
    /\ npc' = "idle"
    /\ vals' = <<>>
    /\ stamps' = stamps + 1
    /\ UNCHANGED <<windows, clock, conn, main, delivered, sent, log, accepted>>

(***************************************************************************)
(* Main thread: the refresh loop                                           *)
(***************************************************************************)
LoopPcs == {"l90", "l91", "l92", "l93", "l94", "l95", "l96", "l97", "l98",
            "l102", "l103"}

\* lines 69-86: the figure, the four lines and the status text are set up;
\* the network thread is already running
L69 ==
    /\ mpc = "l69"
    /\ mpc' = "l90"
    /\ UNCHANGED <<store, clock, net, conn, xs, lines, idle, status_txt, hist>>

\* KeyboardInterrupt during lines 69-86, which no try block encloses: the
\* script ends with a traceback, the finally block does not run, and the
\* network thread ends with the process
InterruptSetup ==
    /\ mpc = "l69"
    /\ mpc' = "traceback"
    /\ npc' = "killed"
    /\ UNCHANGED <<store, clock, vals, conn, xs, lines, idle, status_txt, hist>>

\* plt.pause(REFRESH_SEC) returns
L90 ==
    /\ mpc = "l90"
    /\ mpc' = "l91"
    /\ UNCHANGED <<store, clock, net, conn, xs, lines, idle, status_txt, hist>>

\* if temps:
L91 ==
    /\ mpc = "l91"
    /\ mpc' = IF temps # <<>> THEN "l92" ELSE "l95"
    /\ UNCHANGED <<store, clock, net, conn, xs, lines, idle, status_txt, hist>>

\* xs = range(len(temps))
L92 ==
    /\ mpc = "l92"
    /\ xs' = Len(temps)
    /\ mpc' = "l93"
    /\ UNCHANGED <<store, clock, net, conn, lines, idle, status_txt, hist>>

\* Mutant: the tick empties the deque it has plotted
L93Draining ==
    /\ mpc = "l93"
    /\ t_line' = LineData(xs, temps)
    /\ temps' = <<>>
    /\ mpc' = "l94"
    /\ UNCHANGED <<temps_avg, press, press_avg, last_update, clock, net, conn,
                   xs, ta_line, p_line, pa_line, idle, status_txt, hist>>

\* t_line.set_data(xs, temps).  The argument is the deque itself; the line
\* records what the deque holds at the call.
L93 ==
    /\ mpc = "l93"
    /\ t_line' = LineData(xs, temps)
    /\ mpc' = "l94"
    /\ UNCHANGED <<store, clock, net, conn, xs, ta_line, p_line, pa_line,
                   idle, status_txt, hist>>

\* ta_line.set_data(xs, temps_avg)
L94 ==
    /\ mpc = "l94"
    /\ ta_line' = LineData(xs, temps_avg)
    /\ mpc' = "l95"
    /\ UNCHANGED <<store, clock, net, conn, xs, t_line, p_line, pa_line,
                   idle, status_txt, hist>>

\* if press:
L95 ==
    /\ mpc = "l95"
    /\ mpc' = IF press # <<>> THEN "l96" ELSE "l102"
    /\ UNCHANGED <<store, clock, net, conn, xs, lines, idle, status_txt, hist>>

\* xs = range(len(press))
L96 ==
    /\ mpc = "l96"
    /\ xs' = Len(press)
    /\ mpc' = "l97"
    /\ UNCHANGED <<store, clock, net, conn, lines, idle, status_txt, hist>>

\* p_line.set_data(xs, press)
L97 ==
    /\ mpc = "l97"
    /\ p_line' = LineData(xs, press)
    /\ mpc' = "l98"
    /\ UNCHANGED <<store, clock, net, conn, xs, t_line, ta_line, pa_line,
                   idle, status_txt, hist>>

\* pa_line.set_data(xs, press_avg); relim and autoscale touch the axes only
L98 ==
    /\ mpc = "l98"
    /\ pa_line' = LineData(xs, press_avg)
    /\ mpc' = "l102"
    /\ UNCHANGED <<store, clock, net, conn, xs, t_line, ta_line, p_line,
                   idle, status_txt, hist>>

\* idle = time.time() - last_update
L102 ==
    /\ mpc = "l102"
    /\ idle' = clock - last_update
    /\ mpc' = "l103"
    /\ UNCHANGED <<store, clock, net, conn, xs, lines, status_txt, hist>>

\* Mutant: the warning already at the threshold
StatusForAtThreshold(i) == IF i >= IDLE_WARN_SEC THEN IdleText(i) ELSE NoText

\* lines 103-106: the text for an idle value
StatusFor(i) == IF i > IDLE_WARN_SEC THEN IdleText(i) ELSE NoText

\* if idle > IDLE_WARN_SEC: ... else: ..., and the loop goes round
L103 ==
    /\ mpc = "l103"
    /\ status_txt' = StatusFor(idle)
    /\ mpc' = "l90"
    /\ UNCHANGED <<store, clock, net, conn, xs, lines, idle, hist>>

\* KeyboardInterrupt is raised in the main thread, anywhere in the try block
Interrupt ==
    /\ mpc \in LoopPcs
    /\ mpc' = "l110"
    /\ UNCHANGED <<store, clock, net, conn, xs, lines, idle, status_txt, hist>>

\* finally: client.loop_stop() joins the network thread, which finishes the
\* callback it is running first
L110 ==
    /\ mpc = "l110"
    /\ npc \in {"idle", "crashed"}
    /\ npc' = IF npc = "idle" THEN "stopped" ELSE npc
    /\ mpc' = "l111"
    /\ UNCHANGED <<store, clock, vals, conn, xs, lines, idle, status_txt, hist>>

\* client.disconnect()
L111 ==
    /\ mpc = "l111"
    /\ link' = "down"
    /\ subscribed' = FALSE
    /\ mpc' = "done"
    /\ UNCHANGED <<store, clock, net, subscribes, stderr, xs, lines, idle,
                   status_txt, hist>>

(***************************************************************************)
(* The wall clock behind time.time()                                       *)
(***************************************************************************)
ClockAdvance ==
    /\ clock < MaxTime
    /\ clock' = clock + 1
    /\ UNCHANGED <<store, net, conn, main, hist>>

\* time.time() follows the system clock, which can be set back
ClockSetBack ==
    /\ clock > MinTime
    /\ clock' = clock - 1
    /\ UNCHANGED <<store, net, conn, main, hist>>

(***************************************************************************)
(* Specifications                                                          *)
(***************************************************************************)
Handler == L54 \/ L55 \/ L56 \/ L57 \/ L58

Refresh == L90 \/ L91 \/ L92 \/ L93 \/ L94 \/ L95 \/ L96 \/ L97 \/ L98
           \/ L102 \/ L103

\* Both threads at statement granularity, with connection results, a lost
\* session and the interrupt; the feed is one reading and garbage.
Next ==
    \/ \E rc \in {0, 5} : OnConnect(rc)
    \/ ConnectionLost
    \/ \E payload \in {P_valid1, P_garbage} : OnMessage(payload)
    \/ L54 \/ L55 \/ L56 \/ L57 \/ L58
    \/ L69 \/ InterruptSetup
    \/ L90 \/ L91 \/ L92 \/ L93 \/ L94 \/ L95 \/ L96 \/ L97 \/ L98
    \/ L102 \/ L103
    \/ Interrupt \/ L110 \/ L111

Spec == Init /\ [][Next]_vars

\* The same steps, with both threads scheduled: a handler that has started
\* runs to its end, and the finally block runs to the end of the script.
SpecShutdown ==
    /\ Init
    /\ [][Next]_vars
    /\ WF_vars(L54 \/ L55 \/ L56 \/ L57 \/ L58)
    /\ WF_vars(L69)
    /\ WF_vars(L110)
    /\ WF_vars(L111)

\* The network thread alone under a moving wall clock, fed every payload of
\* the model.
NextIngest ==
    \/ OnConnect(0)
    \/ \E payload \in Payloads : OnMessage(payload)
    \/ L54 \/ L55 \/ L56 \/ L57 \/ L58
    \/ ClockAdvance \/ ClockSetBack

SpecIngest == Init /\ [][NextIngest]_vars

\* Both threads under a moving wall clock; the feed is one reading and
\* garbage, MaxFreshMsgs messages in all.
NextFresh ==
    \/ OnConnect(0)
    \/ \E payload \in {P_valid1, P_garbage} :
          delivered < MaxFreshMsgs /\ OnMessage(payload)
    \/ L54 \/ L55 \/ L56 \/ L57 \/ L58
    \/ L69
    \/ L90 \/ L91 \/ L92 \/ L93 \/ L94 \/ L95 \/ L96 \/ L97 \/ L98
    \/ L102 \/ L103
    \/ ClockAdvance \/ ClockSetBack

SpecFresh == Init /\ [][NextFresh]_vars

\* The network thread across reconnects, with every result code.
NextConn ==
    \/ \E rc \in ResultCodes : OnConnect(rc)
    \/ ConnectionLost
    \/ \E payload \in {P_valid1, P_valid2, P_garbage} : OnMessage(payload)
    \/ L54 \/ L55 \/ L56 \/ L57 \/ L58
    \/ L69 \/ Interrupt \/ L110 \/ L111

SpecConn == Init /\ [][NextConn]_vars

(***************************************************************************)
(* Properties                                                              *)
(***************************************************************************)
Min(a, b) == IF a <= b THEN a ELSE b

\* the last n items of s, oldest first
LastN(s, n) == SubSeq(s, Len(s) - Min(Len(s), n) + 1, Len(s))

\* field i of the readings carried by a sequence of well-formed payloads
Field(ps, i) == [k \in 1..Len(ps) |-> Reading(ps[k])[i]]

Window(i) == windows[i]

\* C1: when a tick has read its four series (lines 91-98), the four
\* sequences it holds have the same length.
C1_TickSeesEqualLengths ==
    mpc = "l102" =>
        /\ Len(t_line.y) = Len(ta_line.y)
        /\ Len(ta_line.y) = Len(p_line.y)
        /\ Len(p_line.y) = Len(pa_line.y)

\* C2: after n appends to a window of capacity MAX_POINTS its length is
\* min(n, MAX_POINTS).
C2_LengthIsMinOfAppends ==
    \A i \in 1..4 : Len(Window(i)) = Min(Len(log[i]), MAX_POINTS)

\* an append met a full window
C2_Witness ==
    /\ Len(log[1]) > MAX_POINTS
    /\ Len(temps) = MAX_POINTS

\* C3: a window read oldest-first is the last min(n, MAX_POINTS) values
\* appended to it, in arrival order.
C3_WindowIsLastAppended ==
    \A i \in 1..4 : Window(i) = LastN(log[i], MAX_POINTS)

\* a value was evicted from a window that holds two different readings
C3_Witness ==
    /\ Len(log[4]) > MAX_POINTS
    /\ press_avg[1] # press_avg[Len(press_avg)]
    /\ log[4][1] # press_avg[1]

\* C4: handling a payload with a field count other than 4, or with a field
\* that is not a number, ends the handler at once: nothing is appended, the
\* timestamp stays, and the exception does not leave the handler.
C4_MalformedIsDropped ==
    [][\A payload \in WrongCount \cup NonNumeric :
          OnMessage(payload) =>
              /\ npc' = "idle"
              /\ UNCHANGED <<store, log>>]_vars

\* one message of several was dropped, and the others were appended
C4_Witness ==
    /\ npc = "idle"
    /\ Len(log[4]) >= 1
    /\ delivered = Len(log[4]) + 1
    /\ last_update # 0

\* C5: no window ever holds a non-finite value.
C5_WindowsHoldFiniteValues ==
    \A i \in 1..4 : \A k \in 1..Len(Window(i)) : IsFinite(Window(i)[k])

\* C6: as long as no message was delivered, the status shows no idle time.
C6_NoIdleBeforeFirstMessage ==
    delivered = 0 => status_txt.kind # "idle"

\* C7: between messages, each window holds the corresponding field of the
\* well-formed payloads delivered so far, in arrival order, cut to the last
\* MAX_POINTS.
C7_WindowsHoldWellFormedReadings ==
    npc = "idle" =>
        \A i \in 1..4 : Window(i) = LastN(Field(sent, i), MAX_POINTS)

\* C8: once a message was accepted, a tick computes idle as now - last_update
\* and shows no warning exactly when idle <= IDLE_WARN_SEC, the idle time
\* otherwise.
C8_FreshIffWithinThreshold ==
    [][/\ (mpc = "l102" /\ mpc' = "l103") => idle' = clock - last_update
       /\ (mpc = "l103" /\ mpc' = "l90" /\ log[4] # <<>>) =>
              status_txt' = IF idle <= IDLE_WARN_SEC
                            THEN NoText
                            ELSE IdleText(idle)]_vars

\* a tick classified a feed that is exactly IDLE_WARN_SEC old
C8_Witness ==
    /\ mpc = "l90"
    /\ last_update # 0
    /\ idle = IDLE_WARN_SEC
    /\ status_txt = NoText

\* C9: last_update never decreases.
C9_TimestampNeverDecreases ==
    [][last_update' >= last_update]_vars

\* C10: a refused connection changes neither the windows nor the timestamp,
\* subscribes to nothing, prints the refusal, and leaves both threads where
\* they are.
C10_RefusalOnlyNotifies ==
    [][\A rc \in ResultCodes \ {0} :
          OnConnect(rc) =>
              /\ UNCHANGED <<store, subscribes, subscribed, link>>
              /\ stderr' = Append(stderr, rc)
              /\ UNCHANGED <<npc, mpc>>]_vars

\* a refusal was printed while samples are buffered and the loop runs
C10_Witness ==
    /\ stderr # <<>>
    /\ subscribes > 0
    /\ link = "down"
    /\ temps # <<>>
    /\ mpc \in LoopPcs

\* C11: an interrupt raised at any point after loop_start never ends the
\* script with an error, and leads to the end of the script with the network
\* thread stopped by loop_stop and the session released by disconnect; from
\* then on nothing is appended.
C11_InterruptStopsEverything ==
    /\ [](mpc # "traceback")
    /\ (mpc \in {"l110", "traceback"}) ~>
           (mpc = "done" /\ npc = "stopped" /\ link = "down" /\ ~subscribed)
    /\ [][mpc = "done" => UNCHANGED <<store, log>>]_vars

\* C12: between messages the four windows have the same length, the number
\* of accepted messages up to the capacity.
C12_WindowsAdvanceTogether ==
    npc = "idle" =>
        \A i \in 1..4 : Len(Window(i)) = Min(accepted, MAX_POINTS)

\* the windows are full after some messages were accepted and one was dropped
C12_Witness ==
    /\ npc = "idle"
    /\ accepted = MAX_POINTS
    /\ delivered > accepted
    /\ Len(press_avg) = MAX_POINTS

\* C13: in every state, also in the middle of a handler, last_update was
\* written at most as often as a value was appended to each window.
C13_StampAfterAppends ==
    \A i \in 1..4 : stamps <= Len(log[i])

\* a second message is appended and not yet stamped
C13_Witness ==
    /\ npc = "l58"
    /\ stamps = 1
    /\ Len(log[4]) = 2

\* C14: a step of the refresh loop leaves the four windows and last_update
\* as they are, and every step that changes one of them is a step of the
\* handler of an accepted message.
C14_TickIsReadOnly ==
    [][/\ Refresh => UNCHANGED store
       /\ (store' # store) => (Handler /\ accepted > 0)]_vars

\* a tick has read non-empty windows, which still hold what it read
C14_Witness ==
    /\ mpc = "l102"
    /\ t_line.y # <<>>
    /\ pa_line.y # <<>>
    /\ temps # <<>>

\* C15: every successful connection result subscribes, also after a lost
\* session, no refused one does, and no message is accepted before the first
\* subscribe.
C15_SubscribeOnEverySuccess ==
    /\ [][\A rc \in ResultCodes :
             OnConnect(rc) =>
                 /\ subscribes' = subscribes + (IF rc = 0 THEN 1 ELSE 0)
                 /\ (rc = 0) => (subscribed' /\ link' = "up")]_vars
    /\ [](accepted > 0 => subscribes > 0)

\* a message was accepted on a session that was subscribed after a reconnect
C15_Witness ==
    /\ subscribes = 2
    /\ subscribed
    /\ link = "up"
    /\ accepted > 0

\* the sequence handed over at line 93 / line 97: set_data gets the deque
\* object, so it reads as the deque reads now
HandedTemps == temps
HandedPress == press

\* C16: while a tick goes on, the sequence it handed over for a series reads
\* as it did when it was handed over.
C16_HandedSequenceIsFrozen ==
    /\ mpc = "l94" => HandedTemps = t_line.y
    /\ mpc = "l98" => HandedPress = p_line.y

\* C17: in every state the window lengths are ordered temps >= temps_avg >=
\* press >= press_avg >= temps - 1.
C17_LengthsWithinOne ==
    /\ Len(temps) >= Len(temps_avg)
    /\ Len(temps_avg) >= Len(press)
    /\ Len(press) >= Len(press_avg)
    /\ Len(press_avg) >= Len(temps) - 1

\* a handler is half way through while the refresh loop runs
C17_Witness ==
    /\ npc = "l56"
    /\ Len(temps) = Len(press) + 1
    /\ Len(temps) = Len(temps_avg)
    /\ mpc \in LoopPcs

\* C18: every line holds as many x positions as y values.
C18_XCountEqualsYCount ==
    /\ t_line.x = Len(t_line.y)
    /\ ta_line.x = Len(ta_line.y)
    /\ p_line.x = Len(p_line.y)
    /\ pa_line.x = Len(pa_line.y)

====
